---------------------------- MODULE Spec2Model ----------------------------
(***************************************************************************)
(* A model of swc.py (SteamWishlistCalendar): one invocation of the script *)
(* captures `now`, fetches the wishlist, resolves every entry's release    *)
(* string to a date (block list, idiom substitution, bare-year expansion,  *)
(* dateparser, future-date correction), and upserts today's counts into    *)
(* the persisted history.  The script may be invoked again later.          *)
(*                                                                         *)
(* Strings are sequences of characters; a character is a one-character     *)
(* string, and a non-ASCII character is written by its code point          *)
(* ("U+5E74").  A date is a record [y, m, d].  Instants are kept at day    *)
(* granularity: the only instant comparison of the script (line 263) has   *)
(* a midnight on its left, and midnight of day D is after `now` exactly    *)
(* when D is after now's calendar day.                                     *)
(***************************************************************************)
EXTENDS Integers, Sequences, FiniteSets, TLC

VARIABLES
    clock,                  \* the wall clock's calendar day, as last read
    steam,                  \* what the Steam APIs serve: [appids, data]
    history,                \* output/history.json: key -> sample
    include_dlc,            \* args.include_dlc
    runs,                   \* invocations of the script completed so far
    pc,                     \* position of the running invocation
    now,                    \* line 209
    wishlist_appids,        \* line 216
    wishlist_data,          \* lines 212, 222: entries in dict order
    idx,                    \* position of the loop of line 240
    prerelease_count,       \* line 213
    successful_deductions,  \* line 214
    events,                 \* cal.events
    failed,                 \* the "Failed deduction" lines printed
    release_string,         \* lines 247..263
    year_only_match,        \* line 257
    translated_date,        \* line 266
    release_date,           \* lines 271, 275
    iters,                  \* executions of line 275 for the current entry
    loaded                  \* data as loaded at lines 328..331

vars == <<clock, steam, history, include_dlc, runs, pc, now, wishlist_appids,
          wishlist_data, idx, prerelease_count, successful_deductions, events,
          failed, release_string, year_only_match, translated_date,
          release_date, iters, loaded>>

\* None, where the script holds a datetime, and where it holds a string or a
\* match; no date has the year 0 and no string the character "None".
NoDate == [y |-> 0, m |-> 0, d |-> 0]
NoString == <<"None">>

-----------------------------------------------------------------------------
(* Bounds *)

\* Calendar years the dates of the model are drawn from: 2024 .. 2023 + YearSpan.
YearSpan == 2

\* Invocations of the script in one behaviour.
MaxRuns == 2

Years == 2024 .. (2023 + YearSpan)
NowYear == 2023 + YearSpan

-----------------------------------------------------------------------------
(* Dates *)

IsLeap(y) == (y % 4 = 0 /\ y % 100 # 0) \/ y % 400 = 0

DaysInMonth(y, m) ==
    IF m = 2 THEN (IF IsLeap(y) THEN 29 ELSE 28)
    ELSE IF m \in {4, 6, 9, 11} THEN 30 ELSE 31

Date(y, m, d) == [y |-> y, m |-> m, d |-> d]

\* date.__lt__: lexicographic on (year, month, day).
DateLt(a, b) ==
    \/ a.y < b.y
    \/ a.y = b.y /\ a.m < b.m
    \/ a.y = b.y /\ a.m = b.m /\ a.d < b.d

\* dt - timedelta(days=1)
MinusOneDay(dt) ==
    IF dt.d > 1 THEN Date(dt.y, dt.m, dt.d - 1)
    ELSE IF dt.m > 1 THEN Date(dt.y, dt.m - 1, DaysInMonth(dt.y, dt.m - 1))
    ELSE Date(dt.y - 1, 12, 31)

\* The calendar day after dt (the wall clock passing midnight).
DayAfter(dt) ==
    IF dt.d < DaysInMonth(dt.y, dt.m) THEN Date(dt.y, dt.m, dt.d + 1)
    ELSE IF dt.m < 12 THEN Date(dt.y, dt.m + 1, 1)
    ELSE Date(dt.y + 1, 1, 1)

\* last_day_of_next_month with dt.month + 1 for dt.month + 2: the last day of
\* dt's own month.
last_day_of_this_month(dt) ==
    LET next_month == dt.m + 1
        wrapped == next_month > 12
    IN  MinusOneDay(Date(IF wrapped THEN dt.y + 1 ELSE dt.y,
                         IF wrapped THEN next_month - 12 ELSE next_month,
                         1))

\* last_day_of_next_month without the timedelta: the first day of the month
\* after next.
first_day_of_next_next_month(dt) ==
    LET next_next_month == dt.m + 2
        wrapped == next_next_month > 12
    IN  Date(IF wrapped THEN dt.y + 1 ELSE dt.y,
             IF wrapped THEN next_next_month - 12 ELSE next_next_month,
             1)

last_day_of_next_month(dt) ==
    LET next_next_month == dt.m + 2
        wrapped == next_next_month > 12
    IN  MinusOneDay(Date(IF wrapped THEN dt.y + 1 ELSE dt.y,
                         IF wrapped THEN next_next_month - 12 ELSE next_next_month,
                         1))

-----------------------------------------------------------------------------
(* Strings *)

UpperCase == <<"A", "B", "C", "D", "E", "F", "G", "H", "I", "J", "K", "L", "M",
               "N", "O", "P", "Q", "R", "S", "T", "U", "V", "W", "X", "Y", "Z">>
LowerCase == <<"a", "b", "c", "d", "e", "f", "g", "h", "i", "j", "k", "l", "m",
               "n", "o", "p", "q", "r", "s", "t", "u", "v", "w", "x", "y", "z">>
DigitChars == <<"0", "1", "2", "3", "4", "5", "6", "7", "8", "9">>
Whitespace == {" ", "\t", "\n", "\r"}

Range(f) == {f[i] : i \in DOMAIN f}
IsDigit(c) == c \in Range(DigitChars)
DigitVal(c) == CHOOSE n \in 0..9 : DigitChars[n + 1] = c
Dig(n) == DigitChars[n + 1]

\* str.lower()
Lower(s) ==
    [i \in 1..Len(s) |->
        IF s[i] \in Range(UpperCase)
        THEN LowerCase[CHOOSE k \in 1..26 : UpperCase[k] = s[i]]
        ELSE s[i]]

StartsWith(s, p) == Len(p) <= Len(s) /\ SubSeq(s, 1, Len(p)) = p

\* `sub in s`
Contains(s, sub) ==
    \E i \in 0..(Len(s) - Len(sub)) : SubSeq(s, i + 1, i + Len(sub)) = sub

\* str.replace(old, new): leftmost, non-overlapping occurrences; old is not empty.
RECURSIVE Replace(_, _, _)
Replace(s, old, new) ==
    IF Len(s) < Len(old) THEN s
    ELSE IF StartsWith(s, old)
         THEN new \o Replace(SubSeq(s, Len(old) + 1, Len(s)), old, new)
         ELSE <<Head(s)>> \o Replace(Tail(s), old, new)

\* str.strip()
RECURSIVE Strip(_)
Strip(s) ==
    IF s = <<>> THEN s
    ELSE IF Head(s) \in Whitespace THEN Strip(Tail(s))
    ELSE IF s[Len(s)] \in Whitespace THEN Strip(SubSeq(s, 1, Len(s) - 1))
    ELSE s

_BLOCK_LIST == <<
    <<"t", "b", "d">>,
    <<"t", "b", "a">>,
    <<"t", "o", " ", "b", "e", " ", "a", "n", "n", "o", "u", "n", "c", "e", "d">>,
    <<"w", "h", "e", "n", " ", "i", "t", "'", "s", " ", "d", "o", "n", "e">>,
    <<"w", "h", "e", "n", " ", "i", "t", "'", "s", " ", "r", "e", "a", "d", "y">>,
    <<"U+5373", "U+5C06", "U+63A8", "U+51FA">>,
    <<"U+5373", "U+5C06", "U+5BA3", "U+5E03">>,
    <<"c", "o", "m", "i", "n", "g", " ", "s", "o", "o", "n">>
>>

_TO_REPLACE == <<
    <<<<"s", "p", "r", "i", "n", "g">>, <<"m", "a", "r">>>>,
    <<<<"s", "u", "m", "m", "e", "r">>, <<"j", "u", "n", "e">>>>,
    <<<<"f", "a", "l", "l">>, <<"s", "e", "p">>>>,
    <<<<"w", "i", "n", "t", "e", "r">>, <<"d", "e", "c">>>>,
    <<<<"q", "1">>, <<"f", "e", "b">>>>,
    <<<<"q", "2">>, <<"m", "a", "y">>>>,
    <<<<"q", "3">>, <<"a", "u", "g">>>>,
    <<<<"q", "4">>, <<"n", "o", "v">>>>,
    <<<<"U+7B2C", "U+4E00", "U+5B63", "U+5EA6">>, <<"f", "e", "b">>>>,
    <<<<"U+7B2C", "U+4E8C", "U+5B63", "U+5EA6">>, <<"m", "a", "y">>>>,
    <<<<"U+7B2C", "U+4E09", "U+5B63", "U+5EA6">>, <<"a", "u", "g">>>>,
    <<<<"U+7B2C", "U+56DB", "U+5B63", "U+5EA6">>, <<"n", "o", "v">>>>,
    <<<<"U+5E74">>, <<".">>>>,
    <<<<"U+6708">>, <<".">>>>,
    <<<<"U+65E5">>, <<".">>>>,
    <<<<"U+53F7">>, <<".">>>>
>>

_SEP == <<"-", "0", "9", "-", "1", "5">>
_LAST_DAY == <<"-", "1", "2", "-", "3", "1">>

\* The block list matched against the whole string: release_string in _BLOCK_LIST.
BlockedWhole(s) == \E k \in DOMAIN _BLOCK_LIST : s = _BLOCK_LIST[k]

\* any(substring in release_string for substring in _BLOCK_LIST)
Blocked(s) == \E k \in DOMAIN _BLOCK_LIST : Contains(s, _BLOCK_LIST[k])

\* for old, new in _TO_REPLACE: release_string = release_string.replace(old, new)
RECURSIVE ReplaceAll(_, _)
ReplaceAll(s, k) ==
    IF k > Len(_TO_REPLACE) THEN s
    ELSE ReplaceAll(Replace(s, _TO_REPLACE[k][1], _TO_REPLACE[k][2]), k + 1)

\* re.match('^(\d{4}) \.$', s): group(1), or no match.  `$` also matches before a
\* final newline.
YearOnlyMatch(s) ==
    IF /\ Len(s) \in {6, 7}
       /\ \A i \in 1..4 : IsDigit(s[i])
       /\ s[5] = " "
       /\ s[6] = "."
       /\ (Len(s) = 7 => s[7] = "\n")
    THEN SubSeq(s, 1, 4)
    ELSE NoString

\* int() of a run of digits
RECURSIVE ToInt(_)
ToInt(s) == IF s = <<>> THEN 0 ELSE 10 * ToInt(SubSeq(s, 1, Len(s) - 1)) + DigitVal(s[Len(s)])

Pad2(n) == <<Dig(n \div 10), Dig(n % 10)>>
Pad4(n) == <<Dig(n \div 1000), Dig((n \div 100) % 10), Dig((n \div 10) % 10), Dig(n % 10)>>

\* strftime('%Y-%m-%d')
FormatDate(dt) == Pad4(dt.y) \o <<"-">> \o Pad2(dt.m) \o <<"-">> \o Pad2(dt.d)

\* Whether s reads YYYY-MM-DD and names a day of the calendar.
IsIsoDate(s) ==
    /\ Len(s) = 10
    /\ \A i \in {1, 2, 3, 4, 6, 7, 9, 10} : IsDigit(s[i])
    /\ s[5] = "-"
    /\ s[8] = "-"
    /\ ToInt(SubSeq(s, 1, 4)) >= 1
    /\ ToInt(SubSeq(s, 6, 7)) \in 1..12
    /\ ToInt(SubSeq(s, 9, 10)) \in 1..DaysInMonth(ToInt(SubSeq(s, 1, 4)), ToInt(SubSeq(s, 6, 7)))

\* datetime.strptime(s, '%Y-%m-%d')
Strptime(s) == Date(ToInt(SubSeq(s, 1, 4)), ToInt(SubSeq(s, 6, 7)), ToInt(SubSeq(s, 9, 10)))

-----------------------------------------------------------------------------
(* The environment: release strings, wishlists, the date parser *)

\* The days `now` is drawn from: the middle and the end of each month of the
\* last year.
NowDates == {Date(NowYear, m, d) : m \in 1..12, d \in {15}}
              \cup {Date(NowYear, m, DaysInMonth(NowYear, m)) : m \in 1..12}

\* The days the parser may answer: the first and the last of each month of
\* each year.
ParserDates == {Date(y, m, 1) : y \in Years, m \in 1..12}
                 \cup {Date(y, m, DaysInMonth(y, m)) : y \in Years, m \in 1..12}

NIAN == "U+5E74"

S_TBD == <<"T", "B", "D", ",", " ", "w", "i", "s", "h", "l", "i", "s", "t", " ", "n", "o", "w", "!">>
S_COMING == <<"C", "o", "m", "i", "n", "g", " ", "s", "o", "o", "n">>
S_EMPTY == <<>>

\* "2025": a year and nothing else.
S_YEAR(y) == Pad4(y)
\* "2025 <nian>": the year as the store writes it in Chinese.
S_YEAR_NIAN(y) == Pad4(y) \o <<" ", NIAN>>
\* "Q3 2025"
S_QUARTER(y) == <<"Q", "3", " ">> \o Pad4(y)
\* A release day the store knows to the day, as line 185 formats it.
S_DAY(y) == FormatDate(Date(y, 3, 5))

RawStrings ==
    {S_TBD, S_COMING, S_EMPTY, S_YEAR(NowYear), S_QUARTER(NowYear)}
        \cup {S_YEAR_NIAN(y) : y \in Years}
        \cup {S_DAY(y) : y \in Years}

\* GameDetails (line 84), with the appid it is stored under; name and
\* short_description are carried into the outputs unread and are left out.
GameDetails(key, type, string, prerelease) ==
    [key |-> key, type |-> type, release_string |-> string, prerelease |-> prerelease]

Wishlist(appids, data) == [appids |-> appids, data |-> data]

\* Wishlists that differ in their counts: empty; two items whose details the
\* GetItems call failed to return; two pending items; one released item.
LaterWishlists ==
    { Wishlist(<<>>, <<>>),
      Wishlist(<<1, 2>>, <<>>),
      Wishlist(<<1, 2>>, <<GameDetails(1, "game", S_COMING, TRUE),
                           GameDetails(2, "dlc", S_DAY(NowYear), TRUE)>>),
      Wishlist(<<1>>, <<GameDetails(1, "game", S_DAY(NowYear), FALSE)>>) }

\* One item of any text, pending or released; a DLC where the text is a day.
FirstWishlists ==
    { Wishlist(<<1>>, <<GameDetails(1, "game", s, p)>>) :
          s \in RawStrings, p \in BOOLEAN }
      \cup { Wishlist(<<1>>, <<GameDetails(1, "dlc", S_DAY(y), p)>>) :
                 y \in Years, p \in BOOLEAN }
      \cup LaterWishlists

\* dateparser.parse(s, settings): a library outside the repository.  A string
\* that reads YYYY-MM-DD parses to that day and the empty string to nothing;
\* of any other string the model only assumes that the result is a date or nothing.
ParseResults(s) ==
    IF IsIsoDate(s) THEN {Strptime(s)}
    ELSE IF s = <<>> THEN {NoDate}
    ELSE {NoDate} \cup ParserDates

\* The sample stored in a dict that was never loaded.
UpsertFresh(data, key, sample) == [k \in {key} |-> sample]

\* data[key] = sample, on the dict loaded from history.json
Upsert(data, key, sample) ==
    [k \in DOMAIN data \cup {key} |-> IF k = key THEN sample ELSE data[k]]

Sample(prerelease, total) == [prerelease |-> prerelease, total |-> total]

OldHistory == [k \in {FormatDate(Date(2023, 12, 31))} |-> Sample(1, 3)]

-----------------------------------------------------------------------------
(* The script *)

Init ==
    /\ clock \in NowDates
    /\ steam \in FirstWishlists
    /\ history \in {<<>>, OldHistory}
    /\ include_dlc \in BOOLEAN
    /\ runs = 0
    /\ pc = "start"
    /\ now = NoDate
    /\ wishlist_appids = <<>>
    /\ wishlist_data = <<>>
    /\ idx = 0
    /\ prerelease_count = 0
    /\ successful_deductions = <<>>
    /\ events = <<>>
    /\ failed = <<>>
    /\ release_string = NoString
    /\ year_only_match = NoString
    /\ translated_date = NoDate
    /\ release_date = NoDate
    /\ iters = 0
    /\ loaded = <<>>

cur == wishlist_data[idx]

\* Lines 209..239: now, the empty containers, the wishlist and its details.
Start ==
    /\ pc = "start"
    /\ now' = clock
    /\ wishlist_appids' = steam.appids
    /\ wishlist_data' = steam.data
    /\ prerelease_count' = 0
    /\ successful_deductions' = <<>>
    /\ events' = <<>>
    /\ idx' = 1
    /\ pc' = "entry"
    /\ UNCHANGED <<clock, steam, history, include_dlc, runs, failed, release_string,
                   year_only_match, translated_date, release_date, iters, loaded>>

\* Lines 240..250: the pending count, lower(), the block list.
BeginEntry ==
    /\ pc = "entry"
    /\ idx <= Len(wishlist_data)
    /\ prerelease_count' = prerelease_count + (IF cur.prerelease THEN 1 ELSE 0)
    /\ release_string' = Lower(cur.release_string)
    /\ IF Blocked(release_string')
       THEN idx' = idx + 1 /\ pc' = "entry"
       ELSE idx' = idx /\ pc' = "normalize"
    /\ UNCHANGED <<clock, steam, history, include_dlc, runs, now, wishlist_appids,
                   wishlist_data, successful_deductions, events, failed,
                   year_only_match, translated_date, release_date, iters, loaded>>

\* Lines 252..256: the substitutions, then strip().
Normalize ==
    /\ pc = "normalize"
    /\ release_string' = Strip(ReplaceAll(release_string, 1))
    /\ pc' = "year"
    /\ UNCHANGED <<clock, steam, history, include_dlc, runs, now, wishlist_appids,
                   wishlist_data, idx, prerelease_count, successful_deductions,
                   events, failed, year_only_match, translated_date, release_date,
                   iters, loaded>>

\* Line 263, given group(1) of the match.
ExpandYear(year) ==
    LET sep_release_date == Strptime(year \o _SEP)
    IN  IF DateLt(now, sep_release_date) THEN year \o _SEP ELSE year \o _LAST_DAY

\* Lines 257..263: a string that holds a year only.
BareYear ==
    /\ pc = "year"
    /\ year_only_match' = YearOnlyMatch(release_string)
    /\ release_string' = IF year_only_match' # NoString
                         THEN ExpandYear(year_only_match')
                         ELSE release_string
    /\ pc' = "parse"
    /\ UNCHANGED <<clock, steam, history, include_dlc, runs, now, wishlist_appids,
                   wishlist_data, idx, prerelease_count, successful_deductions,
                   events, failed, translated_date, release_date, iters, loaded>>

\* Lines 265..271 and 277..279: the parser, and the report of a failure.
Parse ==
    /\ pc = "parse"
    /\ \E t \in ParseResults(release_string) :
        /\ translated_date' = t
        /\ IF t # NoDate
           THEN /\ release_date' = t
                /\ pc' = "correct"
                /\ UNCHANGED <<failed, idx>>
           ELSE /\ failed' = Append(failed, cur.key)
                /\ idx' = idx + 1
                /\ pc' = "entry"
                /\ UNCHANGED release_date
    /\ iters' = 0
    /\ UNCHANGED <<clock, steam, history, include_dlc, runs, now, wishlist_appids,
                   wishlist_data, prerelease_count, successful_deductions, events,
                   release_string, year_only_match, loaded>>

\* The while of line 272 comparing the years only.
LoopCondYears == cur.prerelease /\ release_date.y < now.y

\* The while of line 272 without value.prerelease.
LoopCondAnyEntry == DateLt(release_date, now)

\* The while of line 272 sparing the dates of the bare-year expansion.
LoopCondSparingYears ==
    cur.prerelease /\ year_only_match = NoString /\ DateLt(release_date, now)

\* The condition of the while of line 272.
LoopCond == cur.prerelease /\ DateLt(release_date, now)

\* Line 275, once.
Advance ==
    /\ pc = "correct"
    /\ LoopCond
    /\ release_date' = last_day_of_next_month(release_date)
    /\ iters' = iters + 1
    /\ UNCHANGED <<clock, steam, history, include_dlc, runs, pc, now, wishlist_appids,
                   wishlist_data, idx, prerelease_count, successful_deductions,
                   events, failed, release_string, year_only_match, translated_date,
                   loaded>>

\* Lines 276 and 281..293, once the while has ended: the line of
\* successful.txt and the calendar event.
Emit ==
    /\ pc = "correct"
    /\ ~LoopCond
    /\ successful_deductions' =
           Append(successful_deductions, [key |-> cur.key, date |-> release_date])
    /\ events' = IF cur.type = "dlc" /\ ~include_dlc
                 THEN events
                 ELSE Append(events, [uid |-> cur.key, begin |-> release_date])
    /\ idx' = idx + 1
    /\ pc' = "entry"
    /\ UNCHANGED <<clock, steam, history, include_dlc, runs, now, wishlist_appids,
                   wishlist_data, prerelease_count, failed, release_string,
                   year_only_match, translated_date, release_date, iters, loaded>>

\* Lines 313..334, after the last entry: the outputs.  Time has passed since
\* line 209 (the requests, the sleeps of lines 223..236): today() reads the
\* clock again.
WriteOutputs ==
    /\ pc = "entry"
    /\ idx > Len(wishlist_data)
    /\ \E today \in {clock, DayAfter(clock)} :
        /\ clock' = today
        /\ loaded' = history
        /\ history' = Upsert(history, FormatDate(today),
                             Sample(prerelease_count, Len(wishlist_appids)))
    /\ pc' = "done"
    /\ UNCHANGED <<steam, include_dlc, runs, now, wishlist_appids, wishlist_data, idx,
                   prerelease_count, successful_deductions, events, failed,
                   release_string, year_only_match, translated_date, release_date,
                   iters>>

\* The script is started again, the same day or the next, on a wishlist that
\* may have changed; nothing of the finished process is left but its files.
Rerun ==
    /\ pc = "done"
    /\ runs + 1 < MaxRuns
    /\ runs' = runs + 1
    /\ clock' \in {clock, DayAfter(clock)}
    /\ steam' \in LaterWishlists
    /\ pc' = "start"
    /\ now' = NoDate
    /\ wishlist_appids' = <<>>
    /\ wishlist_data' = <<>>
    /\ idx' = 0
    /\ prerelease_count' = 0
    /\ successful_deductions' = <<>>
    /\ events' = <<>>
    /\ failed' = <<>>
    /\ release_string' = NoString
    /\ year_only_match' = NoString
    /\ translated_date' = NoDate
    /\ release_date' = NoDate
    /\ iters' = 0
    /\ loaded' = <<>>
    /\ UNCHANGED <<history, include_dlc>>

Next ==
    \/ Start
    \/ BeginEntry
    \/ Normalize
    \/ BareYear
    \/ Parse
    \/ Advance
    \/ Emit
    \/ WriteOutputs
    \/ Rerun

Spec == Init /\ [][Next]_vars

-----------------------------------------------------------------------------
(* Properties *)

\* The entry the loop has just left, and the last line of successful.txt.
prev == wishlist_data[idx - 1]
last == successful_deductions[Len(successful_deductions)]

\* The loop has just emitted the date of prev: translated_date, release_date,
\* release_string, year_only_match and iters are still those of prev.
Emitted ==
    /\ pc = "entry"
    /\ idx > 1
    /\ successful_deductions # <<>>
    /\ last.key = prev.key

\* The main loop is at an entry that got past the block list.
Resolving == pc \in {"normalize", "year", "parse", "correct"}

EntryOf(key) == wishlist_data[CHOOSE i \in DOMAIN wishlist_data : wishlist_data[i].key = key]

DateLeq(a, b) == ~DateLt(b, a)

IsMonthEnd(dt) == dt.d = DaysInMonth(dt.y, dt.m)

\* The parser's date of a pending entry lies before now's calendar day.
PastCandidate(entry) == entry.prerelease /\ DateLt(translated_date, now)

\* Whole calendar months from a's month to b's month.
MonthsBetween(a, b) == (b.y - a.y) * 12 + (b.m - a.m)

\* C1: every date emitted for a pending entry, in successful.txt and in the
\* calendar, is on or after now's calendar day, whatever the parser returned.
C1_PendingDateNotBeforeNow ==
    /\ \A i \in DOMAIN successful_deductions :
           EntryOf(successful_deductions[i].key).prerelease
               => DateLeq(now, successful_deductions[i].date)
    /\ \A i \in DOMAIN events :
           EntryOf(events[i].uid).prerelease => DateLeq(now, events[i].begin)

\* A pending entry whose parsed date had passed has been emitted, corrected.
C1_Witness ==
    /\ Emitted
    /\ PastCandidate(prev)
    /\ iters > 0
    /\ last.date = release_date
    /\ events # <<>>

\* C2: each application of last_day_of_next_month in the correction loop gives
\* a strictly later date, and for a pending entry with a past candidate the
\* loop runs at most MonthsBetween(candidate, now) + 2 times.
C2_AdvanceStrictAndBounded ==
    /\ [][iters' = iters + 1 => DateLt(release_date, release_date')]_vars
    /\ []((Resolving /\ pc = "correct" /\ PastCandidate(cur))
              => iters <= MonthsBetween(translated_date, now) + 2)

\* The loop has ended after more than one application.
C2_Witness ==
    /\ Emitted
    /\ PastCandidate(prev)
    /\ iters >= 2
    /\ iters = MonthsBetween(translated_date, now)

\* C3 as stated: the corrected date is a month's last day strictly after
\* now's calendar day.
C3_StrictlyAfterNow ==
    (Emitted /\ PastCandidate(prev))
        => IsMonthEnd(last.date) /\ DateLt(now, last.date)

\* C3 as amended: the corrected date is a month's last day on or after now's
\* calendar day.
C3_MonthEndNotBeforeNow ==
    (Emitted /\ PastCandidate(prev))
        => IsMonthEnd(last.date) /\ DateLeq(now, last.date)

\* The corrector has landed on now's own calendar day.
C3_Witness ==
    /\ Emitted
    /\ PastCandidate(prev)
    /\ iters > 0
    /\ last.date = now

\* C4: the date emitted for an entry that is not pending, or whose parsed date
\* is on or after now's calendar day, is the parsed date.
C4_OtherDatesUnchanged ==
    (Emitted /\ ~PastCandidate(prev))
        => /\ last.date = translated_date
           /\ (prev.type # "dlc" \/ include_dlc)
                  => events[Len(events)] = [uid |-> prev.key, begin |-> translated_date]

\* A released entry with a past date has been emitted.
C4_Witness ==
    /\ Emitted
    /\ ~prev.prerelease
    /\ DateLt(translated_date, now)
    /\ last.date = translated_date

\* Four digits, then nothing but what the substitutions leave of a unit marker.
IsBareYear(s) ==
    /\ Len(s) >= 4
    /\ \A i \in 1..4 : IsDigit(s[i])
    /\ \A i \in 5..Len(s) : s[i] \in {" ", "."}

\* C5: a normalized string that is a bare year Y reaches the parser as
\* Y-09-15 if September 15 of Y is after now, and as Y-12-31 otherwise.
C5_BareYearExpanded ==
    [][(pc = "year" /\ IsBareYear(release_string))
          => LET Y == ToInt(SubSeq(release_string, 1, 4))
             IN  /\ pc' = "parse"
                 /\ release_string' = IF DateLt(now, Date(Y, 9, 15))
                                      THEN FormatDate(Date(Y, 9, 15))
                                      ELSE FormatDate(Date(Y, 12, 31))]_vars

\* C6 as stated: the date of a bare-year expansion is emitted as it is, for a
\* pending entry too.
C6_ExpansionNeverAdvanced ==
    (Emitted /\ year_only_match # NoString)
        => last.date = Strptime(release_string)

\* C6 as amended: the date of a bare-year expansion is emitted as it is unless
\* the entry is pending and the date is before now's calendar day; then it is
\* advanced, to a day on or after now's.
C6_ExpansionAdvancedWhenPast ==
    (Emitted /\ year_only_match # NoString)
        => LET expanded == Strptime(release_string)
           IN  IF prev.prerelease /\ DateLt(expanded, now)
               THEN last.date # expanded /\ DateLeq(now, last.date)
               ELSE last.date = expanded

\* A pending entry's expansion, December 31 of a past year, has been advanced.
C6_Witness ==
    /\ Emitted
    /\ year_only_match # NoString
    /\ prev.prerelease
    /\ release_string = year_only_match \o _LAST_DAY
    /\ DateLt(Strptime(release_string), now)
    /\ last.date # Strptime(release_string)

\* The lowercased release text holds an idiom of the block list.
HasBlockIdiom(text) ==
    LET low == Lower(text)
    IN  \E k \in DOMAIN _BLOCK_LIST : \E i \in 1..Len(low) :
            /\ low[i] = _BLOCK_LIST[k][1]
            /\ i + Len(_BLOCK_LIST[k]) - 1 <= Len(low)
            /\ \A j \in 1..Len(_BLOCK_LIST[k]) : low[i + j - 1] = _BLOCK_LIST[k][j]

KeysOf(seq, field) == {seq[i][field] : i \in DOMAIN seq}

\* C7: an entry whose text holds a block-list idiom is never normalized,
\* expanded or parsed, and has no event, no line of successful.txt and no
\* failure report.
C7_BlockedShortCircuits ==
    /\ Resolving => ~HasBlockIdiom(cur.release_string)
    /\ \A i \in DOMAIN wishlist_data :
           HasBlockIdiom(wishlist_data[i].release_string)
               => /\ wishlist_data[i].key \notin KeysOf(successful_deductions, "key")
                  /\ wishlist_data[i].key \notin KeysOf(events, "uid")
                  /\ wishlist_data[i].key \notin Range(failed)

\* The loop has left a pending entry that holds "tbd" among other words.
C7_Witness ==
    /\ pc = "entry"
    /\ idx = 2
    /\ prev.release_string = S_TBD
    /\ prev.prerelease
    /\ prerelease_count = 1

\* C8: after a run the history holds, under the day of the write, the run's
\* counts, and under every other day what it held before; its keys are days.
C8_HistoryOverwrite ==
    pc = "done"
        => LET key == FormatDate(clock)
           IN  /\ DOMAIN history = DOMAIN loaded \cup {key}
               /\ history[key] = Sample(prerelease_count, Len(wishlist_appids))
               /\ \A k \in DOMAIN loaded \ {key} : history[k] = loaded[k]
               /\ \A k \in DOMAIN history : IsIsoDate(k)

\* A second run of the same day has replaced the first run's sample by other
\* counts, beside the sample of another day.
C8_Witness ==
    /\ pc = "done"
    /\ runs >= 1
    /\ FormatDate(clock) \in DOMAIN loaded
    /\ loaded[FormatDate(clock)] # history[FormatDate(clock)]
    /\ Cardinality(DOMAIN history) >= 2

\* C9: the run's sample is stored under the calendar day of the run's now.
C9_HistoryKeyIsNow ==
    pc = "done"
        => /\ DOMAIN history = DOMAIN loaded \cup {FormatDate(now)}
           /\ history[FormatDate(now)] = Sample(prerelease_count, Len(wishlist_appids))

\* C10: the corrected date is the earliest last day of a month that is not
\* before now's calendar day.
C10_EarliestMonthEnd ==
    (Emitted /\ PastCandidate(prev))
        => ~\E y \in now.y..last.date.y : \E m \in 1..12 :
               LET monthEnd == Date(y, m, DaysInMonth(y, m))
               IN  DateLeq(now, monthEnd) /\ DateLt(monthEnd, last.date)

=============================================================================
